---- MODULE Spec2Model ----
(***************************************************************************)
(* A model of lenstronomy's point-source aggregator                        *)
(* (lenstronomy/PointSource/point_source.py): the PointSource class, the   *)
(* per-source caching wrappers it owns, and the position matcher           *)
(* _sort_position_by_original.                                             *)
(*                                                                         *)
(* A list of image positions is the pair of sequences (x_image, y_image)   *)
(* the code passes around, written [x |-> ..., y |-> ...].  Python indices *)
(* are 0-based; sequences here are 1-based, and the selector k and the     *)
(* parameter index i keep the code's 0-based values.                       *)
(***************************************************************************)
EXTENDS Integers, Sequences, FiniteSets, TLC

\* ------------------------------------------------------------------ bounds
MaxSrc == 2        \* at most this many declared point sources
MaxLens == 2       \* lens-model instances 1..MaxLens
MaxKwLens == 2     \* lens keyword-argument lists 1..MaxKwLens
MaxParamLen == 4   \* flat parameter vectors have up to this many entries
MaxStart == 1      \* update_linear starts at index 0..MaxStart
MaxCoord == 1      \* x coordinates 0..MaxCoord offered to the position matcher
MaxOrig == 2       \* at most this many original points offered to the matcher
MaxSolved == 3     \* at most this many solved points offered to the matcher
MaxFluxSrc == 2    \* entries of the list handed to check_positive_flux
MaxAmps == 2       \* amplitudes in one point_amp array
MaxTol == 2        \* tolerances -1..MaxTol offered to check_image_positions
MaxGrid == 2       \* coordinates 0..MaxGrid, in units of ds, offered to the Gaussian
MaxPoints == 2     \* points in one array offered to the Gaussian
Precision == 6     \* bits in the significand of a floating-point number

\* An optional argument: Nothing is Python's None, Some(v) a given value v.
Nothing == <<>>
Some(v) == <<v>>

SUPPORTED_MODELS == {"UNLENSED", "LENSED_POSITION", "SOURCE_POSITION"}

\* The tags a caller may write: the supported ones and one that is not.
TypeTags == SUPPORTED_MODELS \cup {"POINT_MASS"}

LensModels == 1..MaxLens
KwargsLens == 1..MaxKwLens

\* ----------------------------------------------------------------- helpers
SeqsUpTo(S, lo, hi) == UNION {[1..n -> S] : n \in lo..hi}

RECURSIVE SumSeq(_)
SumSeq(s) == IF s = <<>> THEN 0 ELSE Head(s) + SumSeq(Tail(s))

RECURSIVE Flatten(_)
Flatten(ss) == IF ss = <<>> THEN <<>> ELSE Head(ss) \o Flatten(Tail(ss))

\* Python's s[a:b] for 0 <= a, on a 1-based sequence: clipped to the sequence.
Slice(s, a, b) ==
  LET hi == IF b < Len(s) THEN b ELSE Len(s)
  IN  IF a >= hi THEN <<>> ELSE [j \in 1..(hi - a) |-> s[a + j]]

\* np.delete(s, index) with a 0-based index.
Delete(s, index) ==
  [j \in 1..(Len(s) - 1) |-> IF j <= index THEN s[j] ELSE s[j + 1]]

Abs(n) == IF n < 0 THEN -n ELSE n

\* ------------------------------------------------- _sort_position_by_original
\* The squared distances r2_i of point (x, y) to every solved point.
R2(x, y, x_solved, y_solved) ==
  [j \in 1..Len(x_solved) |->
     (x - x_solved[j]) * (x - x_solved[j]) + (y - y_solved[j]) * (y - y_solved[j])]

\* An argmin that breaks ties towards the last minimum.
ArgMinLast(r) ==
  (CHOOSE j \in 1..Len(r) :
     /\ \A m \in 1..Len(r) : r[j] <= r[m]
     /\ \A m \in (j + 1)..Len(r) : r[m] > r[j]) - 1

\* np.argmin: the 0-based index of the first minimum of a non-empty sequence.
ArgMin(r) ==
  (CHOOSE j \in 1..Len(r) :
     /\ \A m \in 1..Len(r) : r[j] <= r[m]
     /\ \A m \in 1..(j - 1) : r[m] > r[j]) - 1

\* The loop over the original points: i is the 0-based loop index, (x_solved,
\* y_solved) the pool still unassigned, (x_new, y_new) the points assigned so far.
RECURSIVE SortLoop(_, _, _, _, _, _, _)
SortLoop(i, x_o, y_o, x_solved, y_solved, x_new, y_new) ==
  IF i >= Len(x_o)
  THEN [x |-> x_new \o x_solved, y |-> y_new \o y_solved]
  ELSE LET index == ArgMin(R2(x_o[i + 1], y_o[i + 1], x_solved, y_solved))
       IN  SortLoop(i + 1, x_o, y_o,
                    Delete(x_solved, index), Delete(y_solved, index),
                    Append(x_new, x_solved[index + 1]),
                    Append(y_new, y_solved[index + 1]))

\* A matcher that also hands back the originals when the counts are equal.
SortDegenerateOnEqual(x_o, y_o, x_solved, y_solved) ==
  IF Len(x_o) >= Len(x_solved)
  THEN [x |-> x_o, y |-> y_o]
  ELSE SortLoop(0, x_o, y_o, x_solved, y_solved, <<>>, <<>>)

sort_position_by_original(x_o, y_o, x_solved, y_solved) ==
  IF Len(x_o) > Len(x_solved)
  THEN [x |-> x_o, y |-> y_o]
  ELSE SortLoop(0, x_o, y_o, x_solved, y_solved, <<>>, <<>>)

\* ------------------------------------------------ keyword arguments (inputs)
\* A Python dict is a function on its keys; d[key] = value adds or overwrites.
SetItem(d, key, value) ==
  [f \in DOMAIN d \cup {key} |-> IF f = key THEN value ELSE d[f]]

\* The keyword arguments a caller passes for one source of a given type: two
\* choices per type, differing in positions and in the number of images.
KwargsChoice(type, a) ==
  CASE type = "UNLENSED" ->
         IF a = 1
         THEN [ra_image |-> <<0, 1>>, dec_image |-> <<0, 0>>,
               point_amp |-> <<1, 2>>, source_amp |-> 1]
         ELSE [ra_image |-> <<1>>, dec_image |-> <<1>>,
               point_amp |-> <<2>>, source_amp |-> 2]
    [] type = "LENSED_POSITION" ->
         IF a = 1
         THEN [ra_image |-> <<0, 1>>, dec_image |-> <<0, 1>>,
               point_amp |-> <<1, 2>>, source_amp |-> 1]
         ELSE [ra_image |-> <<1, 2, 0>>, dec_image |-> <<0, 1, 0>>,
               point_amp |-> <<2, 1, 1>>, source_amp |-> 2]
    [] OTHER ->
         IF a = 1
         THEN [ra_source |-> 0, dec_source |-> 0,
               point_amp |-> <<1, 2>>, source_amp |-> 1]
         ELSE [ra_source |-> 1, dec_source |-> 0,
               point_amp |-> <<2>>, source_amp |-> 2]

KwChoices == {1, 2}

\* The kwargs_ps lists offered for a type list: the first choice for every
\* source, or the second for every source.
KwargsPsLists(types) ==
  {[i \in 1..Len(types) |-> KwargsChoice(types[i], a)] : a \in KwChoices}

\* --------------------------------------- the per-source models (interface 4.2)
\* The lens-equation solver: a deterministic function of the lens model, the
\* lens keyword arguments and the source position.  The number of images and
\* their order depend on the lens model and on kwargs_lens.
SolveLensEquation(lens_model, kwargs_lens, x_source, y_source) ==
  LET n == 1 + ((lens_model + kwargs_lens) % 3)
      xs == <<x_source + kwargs_lens, x_source, x_source - kwargs_lens>>
      ys == <<y_source + lens_model, y_source - lens_model, y_source>>
  IN  [x |-> SubSeq(xs, 1, n), y |-> SubSeq(ys, 1, n)]

\* image_position of the model a wrapper holds (Unlensed, LensedPositions,
\* SourcePositions), m being the wrapper: the kwargs' images for UNLENSED and,
\* unless additional images are asked for, for LENSED_POSITION; otherwise the
\* solver's images of the source.
ModelImagePosition(m, kwargs, kwargs_lens, additional_images) ==
  IF \/ m.type = "UNLENSED"
     \/ m.type = "LENSED_POSITION" /\ ~(additional_images \/ m.additional_images)
  THEN [x |-> kwargs.ra_image, y |-> kwargs.dec_image]
  ELSE SolveLensEquation(
         m.lens_model, kwargs_lens,
         IF m.type = "LENSED_POSITION" THEN kwargs.ra_image[1] ELSE kwargs.ra_source,
         IF m.type = "LENSED_POSITION" THEN kwargs.dec_image[1] ELSE kwargs.dec_source)

\* --------------------------------------------- PointSourceCached (spec 4.3)
\* Unlensed() is built without a lens model.
NoLensModel == 0

\* One wrapper: the model's type and options, the lens model it refers to, its
\* caching mode and its single cache slot: cache is <<>> when nothing is stored
\* and <<[x |-> x_image, y |-> y_image]>> when a result is.
NewCached(type, lens_model, fixed_magnification, additional_images, save_cache) ==
  [type |-> type, lens_model |-> lens_model,
   fixed_magnification |-> fixed_magnification,
   additional_images |-> additional_images,
   save_cache |-> save_cache, cache |-> <<>>]

HasCache(m) == m.cache # <<>>

\* image_position of a wrapper, p being what its model computes: the stored
\* result when caching is on and a result is stored, otherwise p, which is
\* stored.  Returns the positions and the wrapper afterwards.
CachedGetOrCompute(m, p) ==
  IF m.save_cache /\ HasCache(m)
  THEN [x |-> m.cache[1].x, y |-> m.cache[1].y, m |-> m]
  ELSE [x |-> p.x, y |-> p.y, m |-> [m EXCEPT !.cache = <<p>>]]

CachedImagePosition(m, kwargs, kwargs_lens, additional_images) ==
  CachedGetOrCompute(m, ModelImagePosition(m, kwargs, kwargs_lens, additional_images))

CachedDeleteLensModelCache(m) == [m EXCEPT !.cache = <<>>]

CachedSetSaveCache(m, save_bool) == [m EXCEPT !.save_cache = save_bool]

CachedUpdateLensModel(m, lens_model_class) ==
  [m EXCEPT !.lens_model = lens_model_class]

\* Image amplitudes of a model for the positions (x_pos, y_pos) its wrapper
\* delivered: source_amp times the magnification when the magnification is
\* fixed by the lens model, otherwise point_amp, shaped to the positions.
Magnification(lens_model, kwargs_lens, x, y) ==
  IF (x + y + lens_model + kwargs_lens) % 2 = 0 THEN 2 ELSE -1

ExpandToArray(amp, n) ==
  [j \in 1..n |-> IF j <= Len(amp) THEN amp[j] ELSE 0]

ModelImageAmplitude(m, kwargs, kwargs_lens, x_pos, y_pos) ==
  IF m.type # "UNLENSED" /\ m.fixed_magnification
  THEN [j \in 1..Len(x_pos) |->
          kwargs.source_amp
            * Abs(Magnification(m.lens_model, kwargs_lens, x_pos[j], y_pos[j]))]
  ELSE ExpandToArray(kwargs.point_amp, Len(x_pos))

\* image_amplitude of a wrapper: the amplitudes at the positions r the wrapper's
\* own image_position delivers (stored or computed, as above).
CachedAmplitudeAt(m, kwargs, kwargs_lens, r) ==
  [amp |-> ModelImageAmplitude(m, kwargs, kwargs_lens, r.x, r.y), m |-> r.m]

CachedImageAmplitude(m, kwargs, kwargs_lens) ==
  CachedAmplitudeAt(m, kwargs, kwargs_lens,
                    CachedImagePosition(m, kwargs, kwargs_lens, FALSE))

\* ------------------------------------------------------------- PointSource
\* The selector k: None, or an int (the code's 0-based index).
KNone == [kind |-> "None"]
KInt(n) == [kind |-> "int", v |-> n]

\* A list selector: a list of ints (0-based indices), or a list of booleans.
KList(l) == [kind |-> "list", v |-> l]
KBoolList(b) == [kind |-> "bool_list", v |-> b]

\* "k is None or k == i" for the 1-based position idx of the model (i = idx - 1).
Selected(k, idx) == k.kind = "None" \/ (k.kind = "int" /\ k.v = idx - 1)

\* The positions 1..n the selector picks, in declaration order.
RECURSIVE SelectedFrom(_, _, _)
SelectedFrom(k, idx, n) ==
  IF idx > n THEN <<>>
  ELSE (IF Selected(k, idx) THEN <<idx>> ELSE <<>>) \o SelectedFrom(k, idx + 1, n)

NumModels(s) == Len(s.point_source_list)

\* The aggregator before construction.
NoSelf ==
  [index_lens_model_list |-> Nothing, point_source_frame_list |-> Nothing,
   lens_model |-> NoLensModel, point_source_type_list |-> <<>>,
   point_source_list |-> <<>>, fixed_magnification_list |-> <<>>,
   flux_from_point_source_list |-> <<>>, save_cache |-> FALSE]

\* delete_lens_model_cache: every wrapper's slot is cleared.
DeleteLensModelCache(s) ==
  [s EXCEPT !.point_source_list =
     [i \in 1..Len(@) |-> CachedDeleteLensModelCache(@[i])]]

\* An update of the lens model that leaves the caches alone.
UpdateLensModelKeepingCache(s, lens_model_class) ==
  [s EXCEPT !.lens_model = lens_model_class,
            !.point_source_list =
              [i \in 1..Len(@) |-> CachedUpdateLensModel(@[i], lens_model_class)]]

\* update_lens_model: caches cleared, then the aggregator and every wrapper
\* refer to the new lens model.
UpdateLensModel(s, lens_model_class) ==
  LET d == DeleteLensModelCache(s)
  IN  [d EXCEPT !.lens_model = lens_model_class,
                !.point_source_list =
                  [i \in 1..Len(@) |-> CachedUpdateLensModel(@[i], lens_model_class)]]

\* _set_save_cache: the wrappers' caching mode, not the aggregator's policy.
SetSaveCacheInternal(s, save_cache) ==
  [s EXCEPT !.point_source_list =
     [i \in 1..Len(@) |-> CachedSetSaveCache(@[i], save_cache)]]

\* A set_save_cache that records the policy and leaves the wrappers' mode.
SetSaveCachePolicyOnly(s, save_cache) == [s EXCEPT !.save_cache = save_cache]

\* set_save_cache: the wrappers' mode and the aggregator's policy.
SetSaveCache(s, save_cache) ==
  [SetSaveCacheInternal(s, save_cache) EXCEPT !.save_cache = save_cache]

\* The re-matching of a wrapper's result r to the kwargs' images.
SortedByOriginal(kwargs, r) ==
  LET m == sort_position_by_original(kwargs.ra_image, kwargs.dec_image, r.x, r.y)
  IN  [x |-> m.x, y |-> m.y, m |-> r.m]

\* A re-matching that does not ask for original_position.
MaybeSortedWithoutOriginalFlag(type, kwargs, original_position, additional_images, r) ==
  IF additional_images /\ type = "LENSED_POSITION"
  THEN SortedByOriginal(kwargs, r)
  ELSE r

\* Lines 279-287: r re-matched when both flags are set and the type is
\* LENSED_POSITION, and r itself otherwise.
MaybeSorted(type, kwargs, original_position, additional_images, r) ==
  IF original_position /\ additional_images /\ type = "LENSED_POSITION"
  THEN SortedByOriginal(kwargs, r)
  ELSE r

\* One pass of image_position's loop body for model idx.
ImagePositionEntry(s, kwargs_ps, kwargs_lens, idx, original_position, additional_images) ==
  MaybeSorted(s.point_source_type_list[idx], kwargs_ps[idx], original_position,
              additional_images,
              CachedImagePosition(s.point_source_list[idx], kwargs_ps[idx],
                                  kwargs_lens, additional_images))

\* What a loop over the selected models returns, e[idx] being the pass for
\* model idx: the entries of the selected models in declaration order.
CollectSelected(s, k, sel, e) ==
  [x_image_list |-> [j \in 1..Len(sel) |-> e[sel[j]].x],
   y_image_list |-> [j \in 1..Len(sel) |-> e[sel[j]].y],
   self |-> [s EXCEPT !.point_source_list =
               [idx \in 1..Len(@) |-> IF Selected(k, idx) THEN e[idx].m ELSE @[idx]]]]

\* image_position: one entry per selected model, in declaration order, and the
\* aggregator afterwards (the wrappers called may have stored their result).
ImagePosition(s, kwargs_ps, kwargs_lens, k, original_position, additional_images) ==
  CollectSelected(
    s, k, SelectedFrom(k, 1, NumModels(s)),
    [idx \in 1..NumModels(s) |->
       ImagePositionEntry(s, kwargs_ps, kwargs_lens, idx, original_position,
                          additional_images)])

\* Amplitudes reported as they are, with or without flux.
AmplitudeKept(flux, amp) == amp

\* Lines 366-369: the amplitudes, or zeros of the same shape without flux.
AmplitudeOrZeros(flux, amp) == IF flux THEN amp ELSE [n \in 1..Len(amp) |-> 0]

CollectAmplitudes(s, k, sel, a) ==
  [amp_list |->
     [j \in 1..Len(sel) |->
        AmplitudeOrZeros(s.flux_from_point_source_list[sel[j]], a[sel[j]].amp)],
   self |-> [s EXCEPT !.point_source_list =
               [idx \in 1..Len(@) |-> IF Selected(k, idx) THEN a[idx].m ELSE @[idx]]]]

\* image_amplitude: one entry per selected model; zeros of the same shape for
\* a model whose flux is excluded.
ImageAmplitude(s, kwargs_ps, kwargs_lens, k) ==
  CollectAmplitudes(
    s, k, SelectedFrom(k, 1, NumModels(s)),
    [idx \in 1..NumModels(s) |->
       CachedImageAmplitude(s.point_source_list[idx], kwargs_ps[idx], kwargs_lens)])

\* point_source_list's flattening: the (ra, dec, amp) of every image, models in
\* order then images in order, images of zero amplitude dropped when with_amp.
FlattenImages(ra_list, dec_list, amp_list, with_amp) ==
  LET all == Flatten([i \in 1..Len(ra_list) |->
                        [j \in 1..Len(ra_list[i]) |->
                           [ra |-> ra_list[i][j], dec |-> dec_list[i][j],
                            amp |-> IF with_amp THEN amp_list[i][j] ELSE 1]]])
      Keep(t) == ~(with_amp /\ t.amp = 0)
  IN  SelectSeq(all, Keep)

\* A restore that sets the wrappers' mode back and keeps what they stored.
RestoreWithoutDelete(s) ==
  IF s.save_cache = FALSE THEN SetSaveCacheInternal(s, s.save_cache) ELSE s

\* The end of point_source_list and linear_response_set: under the no-cache
\* policy the caches are deleted and the wrappers' mode is set back.
RestoreCachePolicy(s) ==
  IF s.save_cache = FALSE
  THEN SetSaveCacheInternal(DeleteLensModelCache(s), s.save_cache)
  ELSE s

PointSourceReturn(kept, s) ==
  [ra_array |-> [n \in 1..Len(kept) |-> kept[n].ra],
   dec_array |-> [n \in 1..Len(kept) |-> kept[n].dec],
   amp_array |-> [n \in 1..Len(kept) |-> kept[n].amp],
   self |-> s]

PointSourceAfterAmplitude(with_amp, p, a) ==
  PointSourceReturn(
    FlattenImages(p.x_image_list, p.y_image_list, a.amp_list, with_amp),
    RestoreCachePolicy(a.self))

PointSourceAfterPosition(kwargs_ps, kwargs_lens, k, with_amp, p) ==
  PointSourceAfterAmplitude(
    with_amp, p,
    IF with_amp
    THEN ImageAmplitude(p.self, kwargs_ps, kwargs_lens, k)
    ELSE [amp_list |-> <<>>, self |-> p.self])

\* point_source_list: caching forced on, positions, amplitudes, restore, flatten.
PointSourceList(s, kwargs_ps, kwargs_lens, k, with_amp) ==
  PointSourceAfterPosition(
    kwargs_ps, kwargs_lens, k, with_amp,
    ImagePosition(SetSaveCacheInternal(s, TRUE), kwargs_ps, kwargs_lens, k,
                  FALSE, FALSE))

\* A count that does not look at flux_from_point_source_list.
CountBasisIgnoringFlux(s, ra_pos_list) ==
  SumSeq([i \in 1..Len(s.point_source_type_list) |->
            IF s.fixed_magnification_list[i] THEN 1 ELSE Len(ra_pos_list[i])])

\* Lines 341-347: 1 per fixed-magnification model with flux, else its image
\* count, ra_pos_list being the positions image_position returned.
CountBasis(s, ra_pos_list) ==
  SumSeq([i \in 1..Len(s.point_source_type_list) |->
            IF s.flux_from_point_source_list[i]
            THEN (IF s.fixed_magnification_list[i] THEN 1 ELSE Len(ra_pos_list[i]))
            ELSE 0])

NumBasisReturn(s, p) == [n |-> CountBasis(s, p.x_image_list), self |-> p.self]

\* num_basis: the count for the positions of every model.
NumBasis(s, kwargs_ps, kwargs_lens) ==
  NumBasisReturn(s, ImagePosition(s, kwargs_ps, kwargs_lens, KNone, FALSE, FALSE))

\* linear_response_set's lists for the positions p image_position returned and
\* the amplitudes amps image_amplitude(k=i) returned for every model with flux:
\* one basis per fixed-magnification model (all its images), else one per image.
LinearResponseLists(s, kwargs_lens, with_amp, p, amps) ==
  LET mag(i) ==
        IF with_amp THEN amps[i]
        ELSE IF s.fixed_magnification_list[i]
             THEN [j \in 1..Len(p.x_image_list[i]) |->
                     Abs(Magnification(s.lens_model, kwargs_lens,
                                       p.x_image_list[i][j], p.y_image_list[i][j]))]
             ELSE [j \in 1..Len(p.x_image_list[i]) |-> 1]
      Block(i, v) ==
        IF ~s.flux_from_point_source_list[i] THEN <<>>
        ELSE IF s.fixed_magnification_list[i] THEN <<v>>
        ELSE [j \in 1..Len(p.x_image_list[i]) |-> <<v[j]>>]
      Blocks(xs, ys, ms) ==
        [ra_pos |-> Flatten([i \in 1..NumModels(s) |-> Block(i, xs[i])]),
         dec_pos |-> Flatten([i \in 1..NumModels(s) |-> Block(i, ys[i])]),
         amp |-> Flatten([i \in 1..NumModels(s) |-> Block(i, ms[i])])]
  IN  Blocks(p.x_image_list, p.y_image_list, [i \in 1..NumModels(s) |-> mag(i)])

LinearResponseReturn(lists, s) ==
  [ra_pos |-> lists.ra_pos, dec_pos |-> lists.dec_pos, amp |-> lists.amp,
   n |-> Len(lists.ra_pos), self |-> s]

LinearResponseAfterPosition(s, kwargs_ps, kwargs_lens, with_amp, p) ==
  LinearResponseReturn(
    LinearResponseLists(
      s, kwargs_lens, with_amp, p,
      [i \in 1..NumModels(s) |->
         ImageAmplitude(p.self, kwargs_ps, kwargs_lens, KInt(i - 1)).amp_list[1]]),
    RestoreCachePolicy(p.self))

\* linear_response_set: caching forced on, positions, the lists, restore.  The
\* wrappers all hold a result after image_position, so image_amplitude(k=i)
\* stores none.
LinearResponseSet(s, kwargs_ps, kwargs_lens, with_amp) ==
  LinearResponseAfterPosition(
    s, kwargs_ps, kwargs_lens, with_amp,
    ImagePosition(SetSaveCacheInternal(s, TRUE), kwargs_ps, kwargs_lens, KNone,
                  FALSE, FALSE))

\* update_linear's loop from model k (1-based) on: the kwargs list and the
\* index so far.  raised: param[i] was read past the end of param.
RECURSIVE UpdateLinearLoop(_, _, _, _, _, _)
UpdateLinearLoop(s, param, i, kwargs_ps, ra_pos_list, k) ==
  IF k > NumModels(s)
  THEN [kwargs_ps |-> kwargs_ps, i |-> i, raised |-> FALSE]
  ELSE IF ~s.flux_from_point_source_list[k]
  THEN UpdateLinearLoop(s, param, i, kwargs_ps, ra_pos_list, k + 1)
  ELSE IF s.fixed_magnification_list[k]
  THEN IF i >= Len(param)
       THEN [kwargs_ps |-> kwargs_ps, i |-> i, raised |-> TRUE]
       ELSE UpdateLinearLoop(
              s, param, i + 1,
              [kwargs_ps EXCEPT ![k] = SetItem(@, "source_amp", param[i + 1])],
              ra_pos_list, k + 1)
  ELSE LET n_points == Len(ra_pos_list[k])
       IN  UpdateLinearLoop(
             s, param, i + n_points,
             [kwargs_ps EXCEPT ![k] =
                SetItem(@, "point_amp", Slice(param, i, i + n_points))],
             ra_pos_list, k + 1)

UpdateLinearReturn(u, p) ==
  [kwargs_ps |-> u.kwargs_ps, i |-> u.i, raised |-> u.raised, self |-> p.self]

UpdateLinearAfterPosition(s, param, i, kwargs_ps, p) ==
  UpdateLinearReturn(UpdateLinearLoop(s, param, i, kwargs_ps, p.x_image_list, 1), p)

\* update_linear: the kwargs with the amplitudes of param[i:] written, and the
\* next free index.
UpdateLinear(s, param, i, kwargs_ps, kwargs_lens) ==
  UpdateLinearAfterPosition(
    s, param, i, kwargs_ps,
    ImagePosition(s, kwargs_ps, kwargs_lens, KNone, FALSE, FALSE))

\* A read-back that takes point_amp whatever the magnification option.
LinearParamPointAmpOnly(s, kwargs_list) ==
  Flatten([k \in 1..NumModels(s) |->
             IF ~s.flux_from_point_source_list[k] THEN <<>>
             ELSE kwargs_list[k].point_amp])

\* linear_param_from_kwargs: the amplitudes read back, models in order.
LinearParamFromKwargs(s, kwargs_list) ==
  Flatten([k \in 1..NumModels(s) |->
             IF ~s.flux_from_point_source_list[k] THEN <<>>
             ELSE IF s.fixed_magnification_list[k]
             THEN <<kwargs_list[k].source_amp>>
             ELSE kwargs_list[k].point_amp])

\* A convention that writes point_amp whatever the type and the option.
AmplitudeFieldPointAmpOnly(model, fixed) == "point_amp"

\* The field set_amplitudes writes for a source of the given type and option.
AmplitudeField(model, fixed) ==
  IF model = "UNLENSED" THEN "point_amp"
  ELSE IF model \in {"LENSED_POSITION", "SOURCE_POSITION"}
  THEN IF fixed THEN "source_amp" ELSE "point_amp"
  ELSE "none"

\* The loop of set_amplitudes over the copied list.
SetAmplitudesLoop(s, amp_list, kwargs_list) ==
  [i \in 1..Len(kwargs_list) |->
     IF i <= NumModels(s) /\ s.flux_from_point_source_list[i]
          /\ AmplitudeField(s.point_source_type_list[i],
                            s.fixed_magnification_list[i]) # "none"
     THEN SetItem(kwargs_list[i],
                  AmplitudeField(s.point_source_type_list[i],
                                 s.fixed_magnification_list[i]),
                  amp_list[i])
     ELSE kwargs_list[i]]

\* set_amplitudes: the list returned, and the caller's list after the call
\* (the loop writes to a deep copy).
SetAmplitudes(s, amp_list, kwargs_ps) ==
  [kwargs_list |-> SetAmplitudesLoop(s, amp_list, kwargs_ps),
   kwargs_ps |-> kwargs_ps]

\* ------------------------------------------------------ check_positive_flux
\* A floating-point amplitude: a number, or NaN.
Float(v) == [nan |-> FALSE, v |-> v]
NaN == [nan |-> TRUE, v |-> 0]

\* A comparison that holds for positive amplitudes only.
GreaterThanZero(a) == ~a.nan /\ a.v > 0

\* a >= 0 on floats: False for NaN.
GreaterEqualZero(a) == ~a.nan /\ a.v >= 0

\* np.all(point_amp >= 0) on an array.
AllGreaterEqualZero(arr) == \A n \in 1..Len(arr) : GreaterEqualZero(arr[n])

\* The loop of check_positive_flux from entry n on; a field a source does not
\* have is Nothing.
RECURSIVE CheckPositiveFluxLoop(_, _)
CheckPositiveFluxLoop(kwargs_ps, n) ==
  IF n > Len(kwargs_ps) THEN TRUE
  ELSE IF kwargs_ps[n].point_amp # Nothing
            /\ ~AllGreaterEqualZero(kwargs_ps[n].point_amp[1])
  THEN FALSE
  ELSE IF kwargs_ps[n].source_amp # Nothing
            /\ ~GreaterEqualZero(kwargs_ps[n].source_amp[1])
  THEN FALSE
  ELSE CheckPositiveFluxLoop(kwargs_ps, n + 1)

\* check_positive_flux: the boolean returned, and the list after the call.
CheckPositiveFlux(kwargs_ps) ==
  [pos_bool |-> CheckPositiveFluxLoop(kwargs_ps, 1), kwargs_ps |-> kwargs_ps]

\* ---------------------------------------------------- check_image_positions
\* ray_shooting of the lens model (external, interface 6): the source-plane
\* point of every image; this lens model maps x to (2 - kwargs_lens) * x and
\* y to (2 - lens_model) * y.
RayShooting(lens_model, kwargs_lens, x_pos, y_pos) ==
  [x |-> [j \in 1..Len(x_pos) |-> (2 - kwargs_lens) * x_pos[j]],
   y |-> [j \in 1..Len(y_pos) |-> (2 - lens_model) * y_pos[j]]]

\* (x_source - x_source[0]) ** 2 + (y_source - y_source[0]) ** 2 of image j.
SquaredDist(src, j) ==
  (src.x[j] - src.x[1]) * (src.x[j] - src.x[1])
    + (src.y[j] - src.y[1]) * (src.y[j] - src.y[1])

\* np.max(dist) > tolerance, dist being the roots of the squared distances
\* (never negative; the first is 0).
MaxDistExceeds(src, tolerance) ==
  \/ tolerance < 0
  \/ \E j \in 1..Len(src.x) : SquaredDist(src, j) > tolerance * tolerance

\* The loop of check_image_positions from model i on: x_source[0] of an empty
\* array raises IndexError.
RECURSIVE CheckImagePositionsLoop(_, _, _, _, _, _)
CheckImagePositionsLoop(s, kwargs_lens, tolerance, x_image_list, y_image_list, i) ==
  IF i > NumModels(s) THEN "True"
  ELSE IF s.point_source_type_list[i] \notin {"LENSED_POSITION", "SOURCE_POSITION"}
  THEN CheckImagePositionsLoop(s, kwargs_lens, tolerance, x_image_list, y_image_list, i + 1)
  ELSE IF Len(x_image_list[i]) = 0 THEN "IndexError"
  ELSE IF MaxDistExceeds(RayShooting(s.lens_model, kwargs_lens, x_image_list[i],
                                     y_image_list[i]), tolerance)
  THEN "False"
  ELSE CheckImagePositionsLoop(s, kwargs_lens, tolerance, x_image_list, y_image_list, i + 1)

CheckImagePositionsAfterPosition(s, kwargs_lens, tolerance, p) ==
  [outcome |-> CheckImagePositionsLoop(s, kwargs_lens, tolerance,
                                       p.x_image_list, p.y_image_list, 1),
   x_image_list |-> p.x_image_list, y_image_list |-> p.y_image_list,
   self |-> p.self]

\* check_image_positions: "True", "False" or the exception raised, the
\* positions image_position returned to it, and the aggregator afterwards.
CheckImagePositions(s, kwargs_ps, kwargs_lens, tolerance) ==
  CheckImagePositionsAfterPosition(
    s, kwargs_lens, tolerance,
    ImagePosition(s, kwargs_ps, kwargs_lens, KNone, FALSE, FALSE))

\* ----------------------------------- Gaussian (LensModel/Profiles/gaussian.py)
\* Lengths are in units of the small-radius floor self.ds, and a radius is
\* held by its square, so that R <= ds is Rsq <= ds * ds.
ds == 1

\* The value of a floating-point expression, as far as the divisions decide
\* it: exactly zero, finite, or not finite (inf or NaN).
ClassOf(n) == IF n = 0 THEN "zero" ELSE "finite"

Mul(a, b) ==
  IF a = "nonfinite" \/ b = "nonfinite" THEN "nonfinite"
  ELSE IF a = "zero" \/ b = "zero" THEN "zero"
  ELSE "finite"

Add(a, b) ==
  IF a = "nonfinite" \/ b = "nonfinite" THEN "nonfinite"
  ELSE IF a = "zero" THEN b
  ELSE IF b = "zero" THEN a
  ELSE "finite"

\* a / r for a radius r held by its square: inf or NaN when r is 0.
DivByRadius(a, Rsq) == IF Rsq = 0 THEN "nonfinite" ELSE a

\* A radius left as it is.
RadiusUnfloored(Rsq) == Rsq

\* R = max(R, self.ds), the scalar branch.
FloorScalar(Rsq) == IF ds * ds > Rsq THEN ds * ds ELSE Rsq

\* R[R <= self.ds] = self.ds, the array branch.
FloorArray(Rsq) == [j \in 1..Len(Rsq) |-> IF Rsq[j] <= ds * ds THEN ds * ds ELSE Rsq[j]]

\* mass_2d: amp2d * 2 * pi / (2 * c) * (1 - exp(-c * R**2)), sigma > 0.
mass_2d(Rsq, amp_density) == Mul(amp_density, ClassOf(Rsq))

\* alpha_abs: mass_2d(R, amp_density, sigma) / pi / R, amp_density being
\* _amp2d_to_3d(amp, sigma, sigma), zero exactly when amp is.
alpha_abs(Rsq, amp) == DivByRadius(mass_2d(Rsq, ClassOf(amp)), Rsq)

\* d_alpha_dr: 1 / R**2 * (-1 + (1 + 2 c R**2) exp(-c R**2)) * A.
d_alpha_dr(Rsq, amp) ==
  Mul(Mul(DivByRadius("finite", Rsq), ClassOf(Rsq)), ClassOf(amp))

\* The return of derivatives for one point with floored radius R:
\* alpha / R * x_, alpha / R * y_.
DerivativesAt(x_, y_, Rsq, amp) ==
  [f_x |-> Mul(DivByRadius(alpha_abs(Rsq, amp), Rsq), ClassOf(x_)),
   f_y |-> Mul(DivByRadius(alpha_abs(Rsq, amp), Rsq), ClassOf(y_))]

\* -(d_alpha_dr / r + alpha / r**2) of hessian, d_alpha_dr being the negated
\* derivative (the class of a value is that of its negative).
HessianFactor(Rsq, amp) ==
  Add(DivByRadius(d_alpha_dr(Rsq, amp), Rsq), DivByRadius(alpha_abs(Rsq, amp), Rsq))

\* The return of hessian for one point with floored radius r:
\* f_xx, f_xy, f_xy, f_yy.
HessianAt(x_, y_, Rsq, amp) ==
  LET f_xx == Add(DivByRadius(Mul(HessianFactor(Rsq, amp), ClassOf(x_ * x_)), Rsq),
                  DivByRadius(alpha_abs(Rsq, amp), Rsq))
      f_yy == Add(DivByRadius(Mul(HessianFactor(Rsq, amp), ClassOf(y_ * y_)), Rsq),
                  DivByRadius(alpha_abs(Rsq, amp), Rsq))
      f_xy == DivByRadius(Mul(Mul(HessianFactor(Rsq, amp), ClassOf(x_)), ClassOf(y_)), Rsq)
  IN  [f_xx |-> f_xx, f_xy |-> f_xy, f_yx |-> f_xy, f_yy |-> f_yy]

\* derivatives and hessian on scalars: the radius divided by, and the return.
GaussianScalar(op, x, y, amp, center_x, center_y) ==
  LET x_ == x - center_x
      y_ == y - center_y
      Rsq == FloorScalar(x_ * x_ + y_ * y_)
  IN  [Rsq |-> <<Rsq>>,
       out |-> <<IF op = "derivatives" THEN DerivativesAt(x_, y_, Rsq, amp)
                 ELSE HessianAt(x_, y_, Rsq, amp)>>]

\* derivatives and hessian on arrays, element by element.
GaussianArray(op, x, y, amp, center_x, center_y) ==
  LET x_ == [j \in 1..Len(x) |-> x[j] - center_x]
      y_ == [j \in 1..Len(y) |-> y[j] - center_y]
      Rsq == FloorArray([j \in 1..Len(x) |-> x_[j] * x_[j] + y_[j] * y_[j]])
  IN  [Rsq |-> Rsq,
       out |-> [j \in 1..Len(x) |->
                  IF op = "derivatives" THEN DerivativesAt(x_[j], y_[j], Rsq[j], amp)
                  ELSE HessianAt(x_[j], y_[j], Rsq[j], amp)]]

\* ------------------------------------------- the amplitude converters
\* Floating-point numbers with a significand of Precision bits, rounded to
\* nearest, ties to even, as the doubles of the code are with 53 bits: the
\* number [m, e] is m * 2^e with 2^(Precision-1) <= m < 2^Precision.
RECURSIVE BitLen(_)
BitLen(n) == IF n = 0 THEN 0 ELSE 1 + BitLen(n \div 2)

\* The floating-point number nearest to n * 2^e, n > 0.
RoundToPrecision(n, e) ==
  IF BitLen(n) <= Precision
  THEN [m |-> n * 2^(Precision - BitLen(n)), e |-> e - (Precision - BitLen(n))]
  ELSE LET sh == BitLen(n) - Precision
           q == n \div 2^sh
           rem == n % 2^sh
           up == rem > 2^(sh - 1) \/ (rem = 2^(sh - 1) /\ q % 2 = 1)
       IN  IF up /\ q + 1 = 2^Precision
           THEN [m |-> 2^(Precision - 1), e |-> e + sh + 1]
           ELSE [m |-> IF up THEN q + 1 ELSE q, e |-> e + sh]

\* The floating-point number nearest to (n / d) * 2^e, for n / d > 1/2: the
\* quotient to Precision + 1 bits and more, its last bit telling a remainder.
RatioToFloat(n, d, e) ==
  RoundToPrecision(
    2 * ((n * 2^(Precision + 1)) \div d)
      + (IF (n * 2^(Precision + 1)) % d = 0 THEN 0 ELSE 1),
    e - Precision - 2)

FMul(a, b) == RoundToPrecision(a.m * b.m, a.e + b.e)

FDiv(a, b) == RatioToFloat(a.m, b.m, a.e - b.e)

\* The integer square root of n, bit by bit from the given bit down.
RECURSIVE ISqrtFrom(_, _, _)
ISqrtFrom(n, r, bit) ==
  IF bit = 0 THEN r
  ELSE IF (r + bit) * (r + bit) <= n THEN ISqrtFrom(n, r + bit, bit \div 2)
  ELSE ISqrtFrom(n, r, bit \div 2)

\* np.sqrt: the significand is scaled by an even or odd power of two so that
\* the exponent left is even; the root of n * 2^e is the integer root r of n,
\* its last bit telling a remainder, rounded.
FSqrt(a) ==
  LET k == Precision + 2 + ((a.e + Precision) % 2)
      n == a.m * 2^k
      r == ISqrtFrom(n, 0, 2^(Precision + 2))
  IN  RoundToPrecision(2 * r + (IF r * r = n THEN 0 ELSE 1), ((a.e - k) \div 2) - 1)

\* np.pi, the floating-point number nearest to pi.
Pi == RatioToFloat(355, 113, 0)

\* np.sqrt(sigma_x * sigma_y * 2)
SqrtTwoSigma(sigma_x, sigma_y) == FSqrt(FMul(FMul(sigma_x, sigma_y), RoundToPrecision(2, 0)))

\* _amp3d_to_2d: amp * np.sqrt(np.pi) * np.sqrt(sigma_x * sigma_y * 2)
amp3d_to_2d(amp, sigma_x, sigma_y) ==
  FMul(FMul(amp, FSqrt(Pi)), SqrtTwoSigma(sigma_x, sigma_y))

\* A conversion that leaves the amplitude as it is.
Amp2dTo3dUnscaled(amp, sigma_x, sigma_y) == amp

\* _amp2d_to_3d: amp / (np.sqrt(np.pi) * np.sqrt(sigma_x * sigma_y * 2))
amp2d_to_3d(amp, sigma_x, sigma_y) ==
  FDiv(amp, FMul(FSqrt(Pi), SqrtTwoSigma(sigma_x, sigma_y)))

\* ------------------------------------------------------------ construction
Range(f) == {f[i] : i \in DOMAIN f}

\* index_lens_model_list and point_source_frame_list, when given.
GivenIndexLensModelList == Some(<<<<0>>>>)
GivenFrameList(n) == Some([i \in 1..n |-> Some(<<0>>)])

BoolLists(n) == [1..n -> BOOLEAN]

\* The lens model every instance is constructed with.
FirstLensModel == CHOOSE l \in LensModels : \A m \in LensModels : l <= m

\* The constructor's arguments offered to the position and cache operations:
\* every list of up to MaxSrc supported tags, both cache policies, and the
\* default option lists.
CtorArgs ==
  UNION {
    [point_source_type_list : {t},
     lens_model : {FirstLensModel},
     fixed_magnification_list : {Nothing},
     additional_images_list : {Nothing},
     flux_from_point_source_list : {Nothing},
     save_cache : BOOLEAN,
     index_lens_model_list : {Nothing},
     point_source_frame_list : {Nothing}]
    : t \in SeqsUpTo(SUPPORTED_MODELS, 1, MaxSrc)}

\* The constructor's arguments offered to check its validation: every list of
\* up to MaxSrc tags, supported or not, with and without the index and frame
\* lists, the option lists given (all False) or left out.
ValidationCtorArgs ==
  UNION {
    [point_source_type_list : {t},
     lens_model : {FirstLensModel},
     fixed_magnification_list : {Nothing, Some([i \in 1..Len(t) |-> FALSE])},
     additional_images_list : {Nothing},
     flux_from_point_source_list : {Nothing},
     save_cache : {FALSE},
     index_lens_model_list : {Nothing, GivenIndexLensModelList},
     point_source_frame_list : {Nothing, GivenFrameList(Len(t))}]
    : t \in SeqsUpTo(TypeTags, 1, MaxSrc)}

\* The constructor's arguments offered to the linear-parameter operations:
\* every fixed-magnification and flux list, given or left out, over the lists
\* of UNLENSED and LENSED_POSITION sources.
LinearCtorArgs ==
  UNION {
    [point_source_type_list : {t},
     lens_model : {FirstLensModel},
     fixed_magnification_list : {Nothing} \cup {Some(b) : b \in BoolLists(Len(t))},
     additional_images_list : {Nothing},
     flux_from_point_source_list : {Nothing} \cup {Some(b) : b \in BoolLists(Len(t))},
     save_cache : BOOLEAN,
     index_lens_model_list : {Nothing},
     point_source_frame_list : {Nothing}]
    : t \in SeqsUpTo({"UNLENSED", "LENSED_POSITION"}, 1, MaxSrc)}

\* The constructor's arguments offered to set_amplitudes: every
\* fixed-magnification and flux list, given or left out, over the lists of
\* sources of the three types.
AmplitudeCtorArgs ==
  UNION {
    [point_source_type_list : {t},
     lens_model : {FirstLensModel},
     fixed_magnification_list : {Nothing} \cup {Some(b) : b \in BoolLists(Len(t))},
     additional_images_list : {Nothing},
     flux_from_point_source_list : {Nothing} \cup {Some(b) : b \in BoolLists(Len(t))},
     save_cache : {FALSE},
     index_lens_model_list : {Nothing},
     point_source_frame_list : {Nothing}]
    : t \in SeqsUpTo(SUPPORTED_MODELS, 1, MaxSrc)}

OrDefault(opt, default) == IF opt = Nothing THEN default ELSE opt[1]

\* A frame check that asks for the frame list whatever the source types.
FrameCheckAnyType(a) ==
  IF a.index_lens_model_list # Nothing /\ a.point_source_frame_list = Nothing
  THEN [raise |-> TRUE, frame |-> a.point_source_frame_list]
  ELSE IF "LENSED_POSITION" \in Range(a.point_source_type_list)
          /\ a.index_lens_model_list = Nothing
  THEN [raise |-> FALSE,
        frame |-> Some([i \in 1..Len(a.point_source_type_list) |-> Nothing])]
  ELSE [raise |-> FALSE, frame |-> a.point_source_frame_list]

\* Lines 59-66: the frame list the constructor goes on with; "raise" when
\* LENSED_POSITION comes with an index list and no frame list.
FrameCheck(a) ==
  IF "LENSED_POSITION" \in Range(a.point_source_type_list)
  THEN IF a.index_lens_model_list # Nothing /\ a.point_source_frame_list = Nothing
       THEN [raise |-> TRUE, frame |-> a.point_source_frame_list]
       ELSE IF a.index_lens_model_list = Nothing
       THEN [raise |-> FALSE,
             frame |-> Some([i \in 1..Len(a.point_source_type_list) |-> Nothing])]
       ELSE [raise |-> FALSE, frame |-> a.point_source_frame_list]
  ELSE [raise |-> FALSE, frame |-> a.point_source_frame_list]

\* __init__: the outcome ("ok", or the error raised) and the aggregator built.
Init__(a) ==
  LET types == a.point_source_type_list
      n == Len(types)
      fc == FrameCheck(a)
      fixed == OrDefault(a.fixed_magnification_list, [i \in 1..n |-> FALSE])
      additional == OrDefault(a.additional_images_list, [i \in 1..n |-> FALSE])
      flux == OrDefault(a.flux_from_point_source_list, [i \in 1..n |-> TRUE])
      Wrapper(i) ==
        IF types[i] = "UNLENSED"
        THEN NewCached(types[i], NoLensModel, FALSE, FALSE, a.save_cache)
        ELSE IF types[i] = "LENSED_POSITION"
        THEN NewCached(types[i], a.lens_model, fixed[i], additional[i], a.save_cache)
        ELSE NewCached(types[i], a.lens_model, fixed[i], FALSE, a.save_cache)
      \* The passes of the loop that raise: an unsupported tag (ValueError), or
      \* point_source_frame_list[i] of a frame list that is None (TypeError).
      Raises(i) ==
        \/ types[i] \notin SUPPORTED_MODELS
        \/ types[i] = "LENSED_POSITION" /\ fc.frame = Nothing
      first == CHOOSE i \in 1..n : Raises(i) /\ \A j \in 1..(i - 1) : ~Raises(j)
  IN  IF fc.raise THEN [outcome |-> "ValueError", self |-> NoSelf]
      ELSE IF \E i \in 1..n : Raises(i)
      THEN [outcome |-> IF types[first] \notin SUPPORTED_MODELS
                        THEN "ValueError" ELSE "TypeError",
            self |-> NoSelf]
      ELSE [outcome |-> "ok",
            self |-> [index_lens_model_list |-> a.index_lens_model_list,
                      point_source_frame_list |-> fc.frame,
                      lens_model |-> a.lens_model,
                      point_source_type_list |-> types,
                      point_source_list |-> [i \in 1..n |-> Wrapper(i)],
                      fixed_magnification_list |-> fixed,
                      flux_from_point_source_list |-> flux,
                      save_cache |-> a.save_cache]]

\* ------------------------------------------------------------------- state
VARIABLES
  status,    \* "new" before __init__, then "ok" or the error __init__ raised
  self,      \* the PointSource instance
  last,      \* the call that has just returned: name, arguments, results
  match      \* the position matcher's call that has just returned

vars == <<status, self, last, match>>

NoCall == [op |-> "none"]
NoMatch == [called |-> FALSE]

Init ==
  /\ status = "new"
  /\ self = NoSelf
  /\ last = NoCall
  /\ match = NoMatch

\* The caller may call the instance: it is constructed and the caller has
\* taken the previous call's results.
Idle == status = "ok" /\ last = NoCall

Construct(Args) ==
  /\ status = "new"
  /\ last = NoCall
  /\ \E a \in Args :
       LET r == Init__(a)
       IN  /\ status' = r.outcome
           /\ self' = r.self
           /\ last' = [op |-> "__init__", args |-> a]
  /\ UNCHANGED match

\* The caller takes the results of the call that has returned.
Return ==
  /\ last # NoCall
  /\ last' = NoCall
  /\ UNCHANGED <<status, self, match>>

\* The selectors offered: None and every index of the list.
Selectors(s) == {KNone} \cup {KInt(n) : n \in 0..(NumModels(s) - 1)}

CallImagePosition(Flags) ==
  /\ Idle
  /\ \E kwargs_ps \in KwargsPsLists(self.point_source_type_list),
        kwargs_lens \in KwargsLens, k \in Selectors(self), f \in Flags :
       LET r == ImagePosition(self, kwargs_ps, kwargs_lens, k,
                              f.original_position, f.additional_images)
       IN  /\ self' = r.self
           /\ last' = [op |-> "image_position", kwargs_ps |-> kwargs_ps,
                       kwargs_lens |-> kwargs_lens, k |-> k,
                       original_position |-> f.original_position,
                       additional_images |-> f.additional_images,
                       x_image_list |-> r.x_image_list,
                       y_image_list |-> r.y_image_list]
  /\ UNCHANGED <<status, match>>

AllFlags == [original_position : BOOLEAN, additional_images : BOOLEAN]
DefaultFlags == [original_position : {FALSE}, additional_images : {FALSE}]

CallDeleteLensModelCache ==
  /\ Idle
  /\ self' = DeleteLensModelCache(self)
  /\ last' = [op |-> "delete_lens_model_cache"]
  /\ UNCHANGED <<status, match>>

CallUpdateLensModel ==
  /\ Idle
  /\ \E lens_model_class \in LensModels :
       /\ self' = UpdateLensModel(self, lens_model_class)
       /\ last' = [op |-> "update_lens_model", lens_model_class |-> lens_model_class]
  /\ UNCHANGED <<status, match>>

CallSetSaveCache ==
  /\ Idle
  /\ \E save_cache \in BOOLEAN :
       /\ self' = SetSaveCache(self, save_cache)
       /\ last' = [op |-> "set_save_cache", save_cache |-> save_cache]
  /\ UNCHANGED <<status, match>>

CallPointSourceList ==
  /\ Idle
  /\ \E kwargs_ps \in KwargsPsLists(self.point_source_type_list),
        kwargs_lens \in KwargsLens, k \in Selectors(self), with_amp \in BOOLEAN :
       LET r == PointSourceList(self, kwargs_ps, kwargs_lens, k, with_amp)
       IN  /\ self' = r.self
           /\ last' = [op |-> "point_source_list", kwargs_ps |-> kwargs_ps,
                       kwargs_lens |-> kwargs_lens, k |-> k, with_amp |-> with_amp,
                       ra_array |-> r.ra_array, dec_array |-> r.dec_array,
                       amp_array |-> r.amp_array]
  /\ UNCHANGED <<status, match>>

CallNumBasis ==
  /\ Idle
  /\ \E kwargs_ps \in KwargsPsLists(self.point_source_type_list),
        kwargs_lens \in KwargsLens :
       LET r == NumBasis(self, kwargs_ps, kwargs_lens)
       IN  /\ self' = r.self
           /\ last' = [op |-> "num_basis", kwargs_ps |-> kwargs_ps,
                       kwargs_lens |-> kwargs_lens, n |-> r.n]
  /\ UNCHANGED <<status, match>>

CallLinearResponseSet ==
  /\ Idle
  /\ \E kwargs_ps \in KwargsPsLists(self.point_source_type_list),
        kwargs_lens \in KwargsLens, with_amp \in BOOLEAN :
       LET r == LinearResponseSet(self, kwargs_ps, kwargs_lens, with_amp)
       IN  /\ self' = r.self
           /\ last' = [op |-> "linear_response_set", kwargs_ps |-> kwargs_ps,
                       kwargs_lens |-> kwargs_lens, with_amp |-> with_amp,
                       ra_pos |-> r.ra_pos, dec_pos |-> r.dec_pos,
                       amp |-> r.amp, n |-> r.n]
  /\ UNCHANGED <<status, match>>

\* The flat parameter vectors offered: <<1, 2, ..., n>>, so that every entry
\* tells its place.
ParamVectors == {[j \in 1..n |-> j] : n \in 0..MaxParamLen}

CallUpdateLinear ==
  /\ Idle
  /\ \E kwargs_ps \in KwargsPsLists(self.point_source_type_list),
        kwargs_lens \in KwargsLens, param \in ParamVectors, i \in 0..MaxStart :
       LET r == UpdateLinear(self, param, i, kwargs_ps, kwargs_lens)
       IN  /\ self' = r.self
           /\ last' = [op |-> "update_linear", param |-> param, i |-> i,
                       kwargs_ps |-> kwargs_ps, kwargs_lens |-> kwargs_lens,
                       raised |-> r.raised, kwargs_ps_out |-> r.kwargs_ps,
                       i_out |-> r.i]
  /\ UNCHANGED <<status, match>>

\* linear_param_from_kwargs on the kwargs update_linear has just returned.
CallLinearParamFromKwargs ==
  /\ status = "ok"
  /\ last.op = "update_linear"
  /\ ~last.raised
  /\ last' = [op |-> "linear_param_from_kwargs", kwargs_list |-> last.kwargs_ps_out,
              param |-> LinearParamFromKwargs(self, last.kwargs_ps_out),
              update |-> last]
  /\ UNCHANGED <<status, self, match>>

\* The position matcher called on its own: the arguments of the call are drawn
\* at the start, and the call returns the matched points.
YCoords == {0, 1}

MatcherPoints(max) ==
  UNION {[x : [1..n -> 0..MaxCoord], y : [1..n -> YCoords]] : n \in 0..max}

MatcherArguments ==
  {[called |-> FALSE, x_o |-> o.x, y_o |-> o.y,
    x_solved |-> solved.x, y_solved |-> solved.y]
   : o \in MatcherPoints(MaxOrig), solved \in MatcherPoints(MaxSolved)}

InitMatch ==
  /\ status = "new"
  /\ self = NoSelf
  /\ last = NoCall
  /\ match \in MatcherArguments

SortPositionResult(m, r) ==
  [called |-> TRUE, x_o |-> m.x_o, y_o |-> m.y_o,
   x_solved |-> m.x_solved, y_solved |-> m.y_solved,
   x_new |-> r.x, y_new |-> r.y]

CallSortPosition ==
  /\ ~match.called
  /\ match' = SortPositionResult(
                match,
                sort_position_by_original(match.x_o, match.y_o,
                                          match.x_solved, match.y_solved))
  /\ UNCHANGED <<status, self, last>>

NextMatch == CallSortPosition

MatchSpec == InitMatch /\ [][NextMatch]_vars

\* The list selectors offered: every ascending list of indices of the list
\* of models, and every boolean list of its length with a True in it.
IntListSelectors(s) ==
  {KList(l) : l \in {q \in SeqsUpTo(0..(NumModels(s) - 1), 1, NumModels(s)) :
                       \A n \in 1..(Len(q) - 1) : q[n] < q[n + 1]}}

BoolListSelectors(s) ==
  {KBoolList(b) : b \in {q \in BoolLists(NumModels(s)) :
                           \E n \in 1..NumModels(s) : q[n]}}

\* image_position(kwargs_ps, kwargs_lens, k) with the given selector.
ImagePositionWith(kwargs_ps, kwargs_lens, k) ==
  LET r == ImagePosition(self, kwargs_ps, kwargs_lens, k, FALSE, FALSE)
  IN  /\ self' = r.self
      /\ last' = [op |-> "image_position", kwargs_ps |-> kwargs_ps,
                  kwargs_lens |-> kwargs_lens, k |-> k,
                  original_position |-> FALSE, additional_images |-> FALSE,
                  x_image_list |-> r.x_image_list,
                  y_image_list |-> r.y_image_list]

\* image_position with k None, an int, a list of ints or a boolean list.
CallImagePositionK ==
  /\ Idle
  /\ \E kwargs_ps \in KwargsPsLists(self.point_source_type_list),
        kwargs_lens \in KwargsLens :
       \/ \E k \in Selectors(self) : ImagePositionWith(kwargs_ps, kwargs_lens, k)
       \/ \E k \in IntListSelectors(self) : ImagePositionWith(kwargs_ps, kwargs_lens, k)
       \/ \E k \in BoolListSelectors(self) : ImagePositionWith(kwargs_ps, kwargs_lens, k)
  /\ UNCHANGED <<status, match>>

\* image_amplitude(kwargs_ps, kwargs_lens, k) with the given selector.
ImageAmplitudeWith(kwargs_ps, kwargs_lens, k) ==
  LET r == ImageAmplitude(self, kwargs_ps, kwargs_lens, k)
  IN  /\ self' = r.self
      /\ last' = [op |-> "image_amplitude", kwargs_ps |-> kwargs_ps,
                  kwargs_lens |-> kwargs_lens, k |-> k,
                  amp_list |-> r.amp_list]

\* image_amplitude with k None, an int or a list of ints.
CallImageAmplitudeK ==
  /\ Idle
  /\ \E kwargs_ps \in KwargsPsLists(self.point_source_type_list),
        kwargs_lens \in KwargsLens :
       \/ \E k \in Selectors(self) : ImageAmplitudeWith(kwargs_ps, kwargs_lens, k)
       \/ \E k \in IntListSelectors(self) : ImageAmplitudeWith(kwargs_ps, kwargs_lens, k)
  /\ UNCHANGED <<status, match>>

\* point_source_list(kwargs_ps, kwargs_lens, k, with_amp) with the given selector.
PointSourceListWith(kwargs_ps, kwargs_lens, k, with_amp) ==
  LET r == PointSourceList(self, kwargs_ps, kwargs_lens, k, with_amp)
  IN  /\ self' = r.self
      /\ last' = [op |-> "point_source_list", kwargs_ps |-> kwargs_ps,
                  kwargs_lens |-> kwargs_lens, k |-> k, with_amp |-> with_amp,
                  ra_array |-> r.ra_array, dec_array |-> r.dec_array,
                  amp_array |-> r.amp_array]

\* point_source_list with k None, an int or a list of ints.
CallPointSourceListK ==
  /\ Idle
  /\ \E kwargs_ps \in KwargsPsLists(self.point_source_type_list),
        kwargs_lens \in KwargsLens, with_amp \in BOOLEAN :
       \/ \E k \in Selectors(self) : PointSourceListWith(kwargs_ps, kwargs_lens, k, with_amp)
       \/ \E k \in IntListSelectors(self) : PointSourceListWith(kwargs_ps, kwargs_lens, k, with_amp)
  /\ UNCHANGED <<status, match>>

\* The operations that take a selector, with every kind of selector.
NextSelector ==
  \/ Construct(CtorArgs)
  \/ CallImagePositionK
  \/ CallImageAmplitudeK
  \/ CallPointSourceListK
  \/ Return

SelectorSpec == Init /\ [][NextSelector]_vars

\* The position and cache operations of a constructed instance.
Next ==
  \/ Construct(CtorArgs)
  \/ CallImagePosition(AllFlags)
  \/ CallPointSourceList
  \/ CallNumBasis
  \/ CallLinearResponseSet
  \/ CallDeleteLensModelCache
  \/ CallUpdateLensModel
  \/ CallSetSaveCache
  \/ Return

Spec == Init /\ [][Next]_vars

\* Construction over every tag list and index and frame list, then the same
\* operations.
NextValidation ==
  \/ Construct(ValidationCtorArgs)
  \/ CallImagePosition(DefaultFlags)
  \/ CallPointSourceList
  \/ CallNumBasis
  \/ CallLinearResponseSet
  \/ CallDeleteLensModelCache
  \/ CallUpdateLensModel
  \/ CallSetSaveCache
  \/ Return

ValidationSpec == Init /\ [][NextValidation]_vars

\* The linear-parameter protocol over every fixed-magnification and flux list.
NextLinear ==
  \/ Construct(LinearCtorArgs)
  \/ CallImagePosition(DefaultFlags)
  \/ CallPointSourceList
  \/ CallNumBasis
  \/ CallLinearResponseSet
  \/ CallUpdateLinear
  \/ CallLinearParamFromKwargs
  \/ CallDeleteLensModelCache
  \/ CallUpdateLensModel
  \/ CallSetSaveCache
  \/ Return

LinearSpec == Init /\ [][NextLinear]_vars

\* ============================================================== properties
\* The amplitudes a caller passes for one source: a scalar where the source
\* has the fixed-magnification option, one amplitude per image otherwise.
AmpEntry(fixed, c) == IF fixed THEN 10 * c ELSE <<10 * c + 1, 10 * c + 2>>

AmpLists(s) ==
  {[i \in 1..NumModels(s) |-> AmpEntry(s.fixed_magnification_list[i], c[i])] :
     c \in [1..NumModels(s) -> KwChoices]}

CallSetAmplitudes ==
  /\ Idle
  /\ \E kwargs_ps \in KwargsPsLists(self.point_source_type_list),
        amp_list \in AmpLists(self) :
       LET r == SetAmplitudes(self, amp_list, kwargs_ps)
       IN  last' = [op |-> "set_amplitudes", amp_list |-> amp_list,
                    kwargs_ps |-> kwargs_ps, kwargs_ps_after |-> r.kwargs_ps,
                    kwargs_list |-> r.kwargs_list]
  /\ UNCHANGED <<status, self, match>>

\* linear_param_from_kwargs of the list set_amplitudes has just returned.
CallLinearParamAfterSetAmplitudes ==
  /\ status = "ok"
  /\ last.op = "set_amplitudes"
  /\ last' = [op |-> "linear_param_from_kwargs", after |-> "set_amplitudes",
              amp_list |-> last.amp_list, kwargs_list |-> last.kwargs_list,
              param |-> LinearParamFromKwargs(self, last.kwargs_list)]
  /\ UNCHANGED <<status, self, match>>

\* The amplitude operations of a constructed instance.
NextAmplitude ==
  \/ Construct(AmplitudeCtorArgs)
  \/ CallSetAmplitudes
  \/ CallLinearParamAfterSetAmplitudes
  \/ Return

AmplitudeSpec == Init /\ [][NextAmplitude]_vars

\* The amplitudes offered to check_positive_flux: negative, zero, positive, NaN.
AmpValues == {Float(-1), Float(0), Float(1), NaN}

\* The entries offered: with and without each amplitude field.
FluxKwargs ==
  [point_amp : {Nothing} \cup {Some(a) : a \in SeqsUpTo(AmpValues, 0, MaxAmps)},
   source_amp : {Nothing} \cup {Some(a) : a \in AmpValues}]

\* check_positive_flux is a class method: it needs no instance.
CallCheckPositiveFlux ==
  /\ last = NoCall
  /\ \E kwargs_ps \in SeqsUpTo(FluxKwargs, 0, MaxFluxSrc) :
       LET r == CheckPositiveFlux(kwargs_ps)
       IN  last' = [op |-> "check_positive_flux", kwargs_ps |-> kwargs_ps,
                    kwargs_ps_after |-> r.kwargs_ps, pos_bool |-> r.pos_bool]
  /\ UNCHANGED <<status, self, match>>

NextFlux ==
  \/ CallCheckPositiveFlux
  \/ Return

FluxSpec == Init /\ [][NextFlux]_vars

\* The kwargs_ps lists offered to check_image_positions: those of
\* KwargsPsLists, and one in which the LENSED_POSITION sources have no image.
NoImageChoice(type) ==
  IF type = "LENSED_POSITION"
  THEN [ra_image |-> <<>>, dec_image |-> <<>>, point_amp |-> <<>>, source_amp |-> 1]
  ELSE KwargsChoice(type, 1)

CheckKwargsPsLists(types) ==
  KwargsPsLists(types) \cup {[i \in 1..Len(types) |-> NoImageChoice(types[i])]}

CallCheckImagePositions ==
  /\ Idle
  /\ \E kwargs_ps \in CheckKwargsPsLists(self.point_source_type_list),
        kwargs_lens \in KwargsLens, tolerance \in (-1)..MaxTol :
       LET r == CheckImagePositions(self, kwargs_ps, kwargs_lens, tolerance)
       IN  /\ self' = r.self
           /\ last' = [op |-> "check_image_positions", kwargs_ps |-> kwargs_ps,
                       kwargs_lens |-> kwargs_lens, tolerance |-> tolerance,
                       x_image_list |-> r.x_image_list,
                       y_image_list |-> r.y_image_list,
                       outcome |-> r.outcome]
  /\ UNCHANGED <<status, match>>

\* check_image_positions on a constructed instance whose lens model may be
\* replaced.
NextCheckPositions ==
  \/ Construct(CtorArgs)
  \/ CallCheckImagePositions
  \/ CallUpdateLensModel
  \/ Return

CheckPositionsSpec == Init /\ [][NextCheckPositions]_vars

\* The operations of an instance built with save_cache = False on which
\* set_save_cache is never called.
NextNoCache ==
  \/ Construct({a \in CtorArgs : ~a.save_cache})
  \/ CallImagePosition(DefaultFlags)
  \/ CallPointSourceList
  \/ CallNumBasis
  \/ CallLinearResponseSet
  \/ CallDeleteLensModelCache
  \/ CallUpdateLensModel
  \/ Return

NoCacheSpec == Init /\ [][NextNoCache]_vars

\* The coordinates offered to the Gaussian, in units of ds; the centers are 0
\* and 1 and the amplitudes 0 and 1 (amp >= 0).
Grid == 0..MaxGrid

\* The arrays of points offered: x and y of the same length.
PointArrays ==
  {[x |-> [j \in 1..Len(q) |-> q[j][1]], y |-> [j \in 1..Len(q) |-> q[j][2]]] :
     q \in SeqsUpTo(Grid \X Grid, 0, MaxPoints)}

\* derivatives or hessian on scalar x and y.
CallGaussianScalar ==
  /\ last = NoCall
  /\ \E op \in {"derivatives", "hessian"}, x \in Grid, y \in Grid,
        amp \in {0, 1}, center_x \in {0, 1}, center_y \in {0, 1} :
       LET r == GaussianScalar(op, x, y, amp, center_x, center_y)
       IN  last' = [op |-> op, array |-> FALSE, x |-> <<x>>, y |-> <<y>>,
                    amp |-> amp, center_x |-> center_x, center_y |-> center_y,
                    Rsq |-> r.Rsq, out |-> r.out]
  /\ UNCHANGED <<status, self, match>>

\* derivatives or hessian on arrays x and y.
CallGaussianArray ==
  /\ last = NoCall
  /\ \E op \in {"derivatives", "hessian"}, a \in PointArrays,
        amp \in {0, 1}, center_x \in {0, 1}, center_y \in {0, 1} :
       LET r == GaussianArray(op, a.x, a.y, amp, center_x, center_y)
       IN  last' = [op |-> op, array |-> TRUE, x |-> a.x, y |-> a.y,
                    amp |-> amp, center_x |-> center_x, center_y |-> center_y,
                    Rsq |-> r.Rsq, out |-> r.out]
  /\ UNCHANGED <<status, self, match>>

NextGaussian ==
  \/ CallGaussianScalar
  \/ CallGaussianArray
  \/ Return

GaussianSpec == Init /\ [][NextGaussian]_vars

\* The amplitudes and widths offered to the converters: every floating-point
\* number from 1 up to 2 (a > 0, s > 0; a power of two as a factor changes
\* no significand).
Floats == {[m |-> m, e |-> 1 - Precision] : m \in 2^(Precision - 1)..(2^Precision - 1)}

\* One converter applied to the result of the other, with the same widths.
CallAmpRoundTrip ==
  /\ last = NoCall
  /\ \E a \in Floats, sigma \in Floats, first \in {"_amp2d_to_3d", "_amp3d_to_2d"} :
       last' = [op |-> "amp_round_trip", first |-> first, a |-> a, sigma |-> sigma,
                back |-> IF first = "_amp2d_to_3d"
                         THEN amp3d_to_2d(amp2d_to_3d(a, sigma, sigma), sigma, sigma)
                         ELSE amp2d_to_3d(amp3d_to_2d(a, sigma, sigma), sigma, sigma)]
  /\ UNCHANGED <<status, self, match>>

NextAmp ==
  \/ CallAmpRoundTrip
  \/ Return

AmpSpec == Init /\ [][NextAmp]_vars

\* ------------------------------------------------------ the position matcher
SqDist(x1, y1, x2, y2) == (x1 - x2) * (x1 - x2) + (y1 - y2) * (y1 - y2)

\* The greedy assignment told by indices into the solved list as it was
\* passed: original point after original point takes, among the solved points
\* no earlier original has taken, one of least squared distance, the one of
\* least index among equals.
RECURSIVE GreedyPicks(_, _, _, _, _)
GreedyPicks(x_o, y_o, x_solved, y_solved, picks) ==
  IF Len(picks) >= Len(x_o) THEN picks
  ELSE LET i == Len(picks) + 1
           free == (1..Len(x_solved)) \ {picks[n] : n \in 1..Len(picks)}
           d(j) == SqDist(x_o[i], y_o[i], x_solved[j], y_solved[j])
           best == CHOOSE j \in free :
                     \A m \in free : d(j) < d(m) \/ (d(j) = d(m) /\ j <= m)
       IN  GreedyPicks(x_o, y_o, x_solved, y_solved, Append(picks, best))

\* The indices of 1..n that are not in picks, ascending.
Leftover(n, picks) ==
  LET NotPicked(j) == \A m \in 1..Len(picks) : picks[m] # j
  IN  SelectSeq([j \in 1..n |-> j], NotPicked)

MatchedAs(m, order) ==
  /\ Len(m.x_new) = Len(order)
  /\ Len(m.y_new) = Len(order)
  /\ \A j \in 1..Len(order) :
       m.x_new[j] = m.x_solved[order[j]] /\ m.y_new[j] = m.y_solved[order[j]]

IsPermutationOf(order, n) ==
  /\ Len(order) = n
  /\ \A j \in 1..n : \E m \in 1..n : order[m] = j

GreedyOrder(m) ==
  LET picks == GreedyPicks(m.x_o, m.y_o, m.x_solved, m.y_solved, <<>>)
  IN  picks \o Leftover(Len(m.x_solved), picks)

\* C9: with at least as many solved points as original points the matcher
\* returns the greedy nearest-neighbour assignment: the j-th returned point is
\* the solved point the j-th original takes (least squared distance among the
\* solved points not yet taken, the earliest of them on a tie), then the solved
\* points nobody took, in solved order; the result is a permutation of the
\* solved points.
C9_GreedyMatching ==
  (match.called /\ Len(match.x_o) <= Len(match.x_solved))
    => LET order == GreedyOrder(match)
       IN  /\ MatchedAs(match, order)
           /\ IsPermutationOf(order, Len(match.x_solved))

\* A call with two originals and three solved points, a tie for the first
\* original between two different solved points, and a result in another
\* order than the solved points came in.
C9_Witness ==
  /\ match.called
  /\ Len(match.x_o) = 2
  /\ Len(match.x_solved) = 3
  /\ \E j, m \in 1..3 :
       /\ j < m
       /\ <<match.x_solved[j], match.y_solved[j]>> # <<match.x_solved[m], match.y_solved[m]>>
       /\ SqDist(match.x_o[1], match.y_o[1], match.x_solved[j], match.y_solved[j])
            = SqDist(match.x_o[1], match.y_o[1], match.x_solved[m], match.y_solved[m])
       /\ \A n \in 1..3 :
            SqDist(match.x_o[1], match.y_o[1], match.x_solved[j], match.y_solved[j])
              <= SqDist(match.x_o[1], match.y_o[1], match.x_solved[n], match.y_solved[n])
  /\ <<match.x_new, match.y_new>> # <<match.x_solved, match.y_solved>>

\* C10: with fewer solved points than original points the matcher returns the
\* original points, same length and order; with equal counts it does not: the
\* result is then a rearrangement of the solved points.
C10_Degenerate ==
  match.called =>
    /\ Len(match.x_o) > Len(match.x_solved)
         => match.x_new = match.x_o /\ match.y_new = match.y_o
    /\ Len(match.x_o) = Len(match.x_solved)
         => \E order \in [1..Len(match.x_solved) -> 1..Len(match.x_solved)] :
              /\ IsPermutationOf(order, Len(match.x_solved))
              /\ MatchedAs(match, order)

\* A call with more originals than solved points, at least one solved point,
\* none of the solved points among the originals.
C10_Witness ==
  /\ match.called
  /\ Len(match.x_solved) >= 1
  /\ Len(match.x_o) > Len(match.x_solved)
  /\ \A j \in 1..Len(match.x_solved), i \in 1..Len(match.x_o) :
       <<match.x_solved[j], match.y_solved[j]>> # <<match.x_o[i], match.y_o[i]>>
  /\ match.x_new = match.x_o
  /\ match.y_new = match.y_o

\* ------------------------------------------------------------ construction
HasUnsupportedTag(types) == \E i \in 1..Len(types) : types[i] \notin SUPPORTED_MODELS

LensedWithoutFrames(types, index_lens_model_list, point_source_frame_list) ==
  /\ \E i \in 1..Len(types) : types[i] = "LENSED_POSITION"
  /\ index_lens_model_list # Nothing
  /\ point_source_frame_list = Nothing

\* C1: construction raises ValueError exactly when the type list holds a tag
\* outside the three supported ones, or holds LENSED_POSITION with an index
\* lens-model list and no frame list; it raises nothing else, and an instance
\* that was constructed has one wrapper per tag, each of a supported type, and
\* keeps a frame list with LENSED_POSITION and an index list, whatever
\* operation is called on it afterwards.
C1_ConstructionErrors ==
  /\ last.op = "__init__"
       => /\ status \in {"ok", "ValueError"}
          /\ status = "ValueError"
               <=> \/ HasUnsupportedTag(last.args.point_source_type_list)
                   \/ LensedWithoutFrames(last.args.point_source_type_list,
                                          last.args.index_lens_model_list,
                                          last.args.point_source_frame_list)
          /\ status = "ok" => self.point_source_type_list = last.args.point_source_type_list
  /\ status = "ok"
       => /\ NumModels(self) = Len(self.point_source_type_list)
          /\ \A i \in 1..NumModels(self) :
               /\ self.point_source_list[i].type = self.point_source_type_list[i]
               /\ self.point_source_list[i].type \in SUPPORTED_MODELS
          /\ ~LensedWithoutFrames(self.point_source_type_list,
                                  self.index_lens_model_list,
                                  self.point_source_frame_list)

\* A construction that raised ValueError over supported tags only: the one
\* with LENSED_POSITION, an index list and no frame list.
C1_Witness ==
  /\ last.op = "__init__"
  /\ status = "ValueError"
  /\ ~HasUnsupportedTag(last.args.point_source_type_list)
  /\ Len(last.args.point_source_type_list) = 2

PositionsNow(s, kwargs_ps, kwargs_lens) ==
  ImagePosition(s, kwargs_ps, kwargs_lens, KNone, FALSE, FALSE).x_image_list

\* The basis functions counted one by one: a source with flux and fixed
\* magnification is one, every image of a source with flux and free
\* magnification is one.
BasisSet(s, positions) ==
  {<<i, 0>> : i \in {n \in 1..NumModels(s) :
                       s.flux_from_point_source_list[n] /\ s.fixed_magnification_list[n]}}
  \cup UNION {{<<i, j>> : j \in 1..Len(positions[i])}
              : i \in {n \in 1..NumModels(s) :
                         s.flux_from_point_source_list[n]
                         /\ ~s.fixed_magnification_list[n]}}

\* C3: num_basis is the sum over the sources of 0 for a source without flux, 1
\* for a source with flux and fixed magnification, and the number of image
\* positions image_position returns for the source otherwise.
C3_NumBasisCount ==
  last.op = "num_basis"
    => last.n = Cardinality(BasisSet(self, PositionsNow(self, last.kwargs_ps,
                                                        last.kwargs_lens)))

\* num_basis over a source without flux and a source of free magnification
\* with two images or more.
C3_Witness ==
  /\ last.op = "num_basis"
  /\ last.n >= 2
  /\ \E i, j \in 1..NumModels(self) :
       /\ ~self.flux_from_point_source_list[i]
       /\ self.flux_from_point_source_list[j] /\ ~self.fixed_magnification_list[j]

\* C4 as stated: the operations of the flat-vector protocol agree for the same
\* sources and keyword arguments: update_linear returns its start index plus
\* num_basis; linear_response_set's n is num_basis and the length of each of
\* its three lists; the vector linear_param_from_kwargs returns has length
\* num_basis.
C4_ProtocolAgrees ==
  /\ (last.op = "update_linear" /\ ~last.raised)
       => last.i_out = last.i + NumBasis(self, last.kwargs_ps, last.kwargs_lens).n
  /\ last.op = "linear_response_set"
       => /\ last.n = NumBasis(self, last.kwargs_ps, last.kwargs_lens).n
          /\ Len(last.ra_pos) = last.n
          /\ Len(last.dec_pos) = last.n
          /\ Len(last.amp) = last.n
  /\ (last.op = "linear_param_from_kwargs"
        /\ last.update.i_out <= Len(last.update.param))
       => Len(last.param) = NumBasis(self, last.kwargs_list, last.update.kwargs_lens).n

\* ------------------------------------------------- positions and the caches
\* What the model behind wrapper idx computes for the arguments of a call.
FreshPositions(s, idx, kwargs_ps, kwargs_lens, additional_images) ==
  ModelImagePosition(s.point_source_list[idx], kwargs_ps[idx], kwargs_lens,
                     additional_images)

\* The place in a returned list of the entry of model idx under selector k.
EntryIndex(k, idx) == IF k.kind = "None" THEN idx ELSE 1

EntryOf(l, idx) ==
  [x |-> l.x_image_list[EntryIndex(l.k, idx)],
   y |-> l.y_image_list[EntryIndex(l.k, idx)]]

Stored(m) == m.cache[1]

\* C5: under the caching policy, image_position with both flags False returns
\* for a source whose wrapper holds a result that stored result, whatever the
\* arguments of the call, and leaves it stored; a stored result stays until
\* delete_lens_model_cache or update_lens_model is called, both of which leave
\* no wrapper with a result; and for a source whose wrapper holds none,
\* image_position returns what the model computes from the arguments of that
\* call, and stores it.
C5_CacheHitUntilCleared ==
  [][/\ (self.save_cache /\ last'.op = "image_position"
           /\ ~last'.original_position /\ ~last'.additional_images)
          => \A idx \in 1..NumModels(self) :
               Selected(last'.k, idx)
                 => IF HasCache(self.point_source_list[idx])
                    THEN /\ EntryOf(last', idx) = Stored(self.point_source_list[idx])
                         /\ self'.point_source_list[idx] = self.point_source_list[idx]
                    ELSE /\ EntryOf(last', idx)
                              = FreshPositions(self, idx, last'.kwargs_ps,
                                               last'.kwargs_lens, FALSE)
                         /\ self'.point_source_list[idx].cache = <<EntryOf(last', idx)>>
     /\ (self.save_cache
           /\ last'.op \notin {"delete_lens_model_cache", "update_lens_model"})
          => \A idx \in 1..NumModels(self) :
               HasCache(self.point_source_list[idx])
                 => self'.point_source_list[idx].cache = self.point_source_list[idx].cache
     /\ last'.op \in {"delete_lens_model_cache", "update_lens_model"}
          => \A idx \in 1..NumModels(self') : ~HasCache(self'.point_source_list[idx])
    ]_vars

\* Under the caching policy image_position, flags False, has returned for
\* some source positions other than the ones its arguments give.
C5_Witness ==
  /\ last.op = "image_position"
  /\ self.save_cache
  /\ ~last.original_position
  /\ ~last.additional_images
  /\ \E idx \in 1..NumModels(self) :
       /\ Selected(last.k, idx)
       /\ EntryOf(last, idx)
            # FreshPositions(self, idx, last.kwargs_ps, last.kwargs_lens, FALSE)

\* The selector of a list-building call: point_source_list's k, and every
\* source for linear_response_set.
SelectorOf(l) == IF l.op = "point_source_list" THEN l.k ELSE KNone

\* C6: the aggregator's policy is the save_cache given at construction or last
\* passed to set_save_cache, and no other operation changes it; when
\* point_source_list or linear_response_set returns, every wrapper's caching
\* mode is that policy, under the no-cache policy no wrapper holds a result,
\* and under the caching policy every selected source's wrapper holds one.
C6_PolicyRestored ==
  [][/\ (last'.op = "__init__" /\ status' = "ok")
          => self'.save_cache = last'.args.save_cache
     /\ last'.op = "set_save_cache" => self'.save_cache = last'.save_cache
     /\ last'.op \notin {"__init__", "set_save_cache"}
          => self'.save_cache = self.save_cache
     /\ last'.op \in {"point_source_list", "linear_response_set"}
          => \A idx \in 1..NumModels(self') :
               /\ self'.point_source_list[idx].save_cache = self'.save_cache
               /\ ~self'.save_cache => ~HasCache(self'.point_source_list[idx])
               /\ (self'.save_cache /\ Selected(SelectorOf(last'), idx))
                    => HasCache(self'.point_source_list[idx])
    ]_vars

\* linear_response_set has returned under the no-cache policy: two wrappers,
\* caching off again, nothing stored.
C6_Witness ==
  /\ last.op = "linear_response_set"
  /\ ~self.save_cache
  /\ NumModels(self) = 2
  /\ \A idx \in 1..2 :
       /\ ~self.point_source_list[idx].save_cache
       /\ ~HasCache(self.point_source_list[idx])

\* Every stored result is one the wrapper's model computes under the lens
\* model the aggregator refers to now, for some arguments.
StoredUnderCurrentLensModel ==
  status = "ok"
    => \A idx \in 1..NumModels(self) :
         HasCache(self.point_source_list[idx])
           => \E kwargs_ps \in KwargsPsLists(self.point_source_type_list),
                 kwargs_lens \in KwargsLens, additional_images \in BOOLEAN :
                Stored(self.point_source_list[idx])
                  = ModelImagePosition(
                      [self.point_source_list[idx] EXCEPT !.lens_model = self.lens_model],
                      kwargs_ps[idx], kwargs_lens, additional_images)

\* C7: when update_lens_model(L) returns no wrapper holds a result, the
\* aggregator and every wrapper refer to L, and the policy and the wrappers'
\* caching mode are what they were; so at no time does a wrapper hold a result
\* computed under a lens model other than the current one.
C7_UpdateLensModel ==
  /\ []StoredUnderCurrentLensModel
  /\ [][last'.op = "update_lens_model"
          => /\ self'.save_cache = self.save_cache
             /\ self'.lens_model = last'.lens_model_class
             /\ NumModels(self') = NumModels(self)
             /\ \A idx \in 1..NumModels(self') :
                  /\ ~HasCache(self'.point_source_list[idx])
                  /\ self'.point_source_list[idx].lens_model = last'.lens_model_class
                  /\ self'.point_source_list[idx].save_cache
                       = self.point_source_list[idx].save_cache
       ]_vars

\* update_lens_model has returned with another lens model than the one the
\* instance was constructed with, under the caching policy.
C7_Witness ==
  /\ last.op = "update_lens_model"
  /\ last.lens_model_class # FirstLensModel
  /\ self.save_cache
  /\ NumModels(self) = 2
  /\ self.lens_model = last.lens_model_class

\* What wrapper idx delivers to a call: its stored result when its caching is
\* on and it holds one, what its model computes otherwise.
Delivered(s, idx, kwargs_ps, kwargs_lens, additional_images) ==
  IF s.point_source_list[idx].save_cache /\ HasCache(s.point_source_list[idx])
  THEN Stored(s.point_source_list[idx])
  ELSE FreshPositions(s, idx, kwargs_ps, kwargs_lens, additional_images)

Rematched(kwargs, d) ==
  sort_position_by_original(kwargs.ra_image, kwargs.dec_image, d.x, d.y)

DeliveredForced(s, idx, kwargs_ps, kwargs_lens) ==
  IF HasCache(s.point_source_list[idx])
  THEN Stored(s.point_source_list[idx])
  ELSE FreshPositions(s, idx, kwargs_ps, kwargs_lens, FALSE)

\* The amplitudes image_amplitude reports for source idx at the positions d:
\* the model's amplitudes, or zeros of the same shape without flux.
AmplitudeReported(s, idx, kwargs_ps, kwargs_lens, d) ==
  IF s.flux_from_point_source_list[idx]
  THEN ModelImageAmplitude(s.point_source_list[idx], kwargs_ps[idx], kwargs_lens,
                           d.x, d.y)
  ELSE [j \in 1..Len(d.x) |-> 0]

\* The images point_source_list is to return, from image j of source idx on:
\* selected sources in declaration order, their images in order, an image of
\* amplitude 0 left out when with_amp.
RECURSIVE ImagesFrom(_, _, _, _, _, _, _)
ImagesFrom(s, kwargs_ps, kwargs_lens, k, with_amp, idx, j) ==
  IF idx > NumModels(s) THEN <<>>
  ELSE IF ~Selected(k, idx)
  THEN ImagesFrom(s, kwargs_ps, kwargs_lens, k, with_amp, idx + 1, 1)
  ELSE LET d == DeliveredForced(s, idx, kwargs_ps, kwargs_lens)
           a == AmplitudeReported(s, idx, kwargs_ps, kwargs_lens, d)
       IN  IF j > Len(d.x)
           THEN ImagesFrom(s, kwargs_ps, kwargs_lens, k, with_amp, idx + 1, 1)
           ELSE IF with_amp /\ a[j] = 0
           THEN ImagesFrom(s, kwargs_ps, kwargs_lens, k, with_amp, idx, j + 1)
           ELSE <<[ra |-> d.x[j], dec |-> d.y[j],
                   amp |-> IF with_amp THEN a[j] ELSE 1]>>
                \o ImagesFrom(s, kwargs_ps, kwargs_lens, k, with_amp, idx, j + 1)

ImageCount(s, kwargs_ps, kwargs_lens, k) ==
  Cardinality({<<idx, j>> \in (1..NumModels(s)) \X (1..(MaxSolved + 1)) :
                 /\ Selected(k, idx)
                 /\ j <= Len(DeliveredForced(s, idx, kwargs_ps, kwargs_lens).x)})

\* C11: point_source_list returns three arrays of equal length.  With with_amp
\* they hold, selected sources in declaration order and images in order, the
\* images of non-zero amplitude with their amplitude: no returned amplitude is
\* 0, and a source without flux has no entry.  Without with_amp they hold
\* every image of every selected source with amplitude 1.
C11_PointSourceListArrays ==
  [][last'.op = "point_source_list"
       => LET e == ImagesFrom(self, last'.kwargs_ps, last'.kwargs_lens, last'.k,
                              last'.with_amp, 1, 1)
          IN  /\ Len(last'.ra_array) = Len(e)
              /\ Len(last'.dec_array) = Len(e)
              /\ Len(last'.amp_array) = Len(e)
              /\ \A n \in 1..Len(e) :
                   /\ last'.ra_array[n] = e[n].ra
                   /\ last'.dec_array[n] = e[n].dec
                   /\ last'.amp_array[n] = e[n].amp
                   /\ last'.with_amp => last'.amp_array[n] # 0
                   /\ ~last'.with_amp => last'.amp_array[n] = 1
              /\ ~last'.with_amp
                   => Len(e) = ImageCount(self, last'.kwargs_ps, last'.kwargs_lens,
                                          last'.k)
              /\ last'.with_amp
                   => \A idx \in 1..NumModels(self) :
                        (Selected(last'.k, idx) /\ ~self.flux_from_point_source_list[idx])
                          => Len(e) <= ImageCount(self, last'.kwargs_ps,
                                                  last'.kwargs_lens, last'.k)
                                         - Len(DeliveredForced(self, idx, last'.kwargs_ps,
                                                               last'.kwargs_lens).x)
    ]_vars

\* point_source_list with amplitudes over two sources, one of them without
\* flux, has returned some images and fewer than the wrappers hold.
C11_Witness ==
  /\ last.op = "point_source_list"
  /\ last.with_amp
  /\ last.k = KNone
  /\ self.save_cache
  /\ NumModels(self) = 2
  /\ \E i \in 1..2 : ~self.flux_from_point_source_list[i]
  /\ Len(last.ra_array) >= 1
  /\ Len(last.ra_array)
       < Len(Stored(self.point_source_list[1]).x) + Len(Stored(self.point_source_list[2]).x)

\* ------------------------------------------------------------ list selectors
\* The models a list selector names.
Picked(k, idx) ==
  IF k.kind = "list" THEN \E n \in 1..Len(k.v) : k.v[n] = idx - 1
  ELSE k.kind = "bool_list" /\ idx <= Len(k.v) /\ k.v[idx]

PickedCount(s, k) == Cardinality({idx \in 1..NumModels(s) : Picked(k, idx)})

\* The place of model idx among the models a list selector names.
PickedRank(k, idx) == Cardinality({i \in 1..idx : Picked(k, i)})

\* C12: with a list for k (ints, or booleans for image_position) image_position,
\* image_amplitude and point_source_list return the entries of the models the
\* list names, in declaration order: one entry per named model, for
\* image_position the positions its wrapper delivered (and holds), and for
\* point_source_list without amplitudes at least one image per named model.
C12_ListSelectsModels ==
  (last.op \in {"image_position", "image_amplitude", "point_source_list"}
     /\ last.k.kind \in {"list", "bool_list"})
    => /\ last.op = "image_position"
            => /\ Len(last.x_image_list) = PickedCount(self, last.k)
               /\ Len(last.y_image_list) = PickedCount(self, last.k)
               /\ \A idx \in 1..NumModels(self) :
                    Picked(last.k, idx)
                      => /\ HasCache(self.point_source_list[idx])
                         /\ last.x_image_list[PickedRank(last.k, idx)]
                              = Stored(self.point_source_list[idx]).x
                         /\ last.y_image_list[PickedRank(last.k, idx)]
                              = Stored(self.point_source_list[idx]).y
       /\ last.op = "image_amplitude"
            => Len(last.amp_list) = PickedCount(self, last.k)
       /\ (last.op = "point_source_list" /\ ~last.with_amp)
            => Len(last.ra_array) >= PickedCount(self, last.k)

\* ------------------------------------------------------------ set_amplitudes
\* The field the amplitude of source i goes to: point_amp for an UNLENSED
\* source or one of variable magnification, source_amp for a
\* fixed-magnification LENSED_POSITION or SOURCE_POSITION source.
FieldOfSource(s, i) ==
  IF s.point_source_type_list[i] = "UNLENSED" \/ ~s.fixed_magnification_list[i]
  THEN "point_amp" ELSE "source_amp"

FlattenedAmplitudes(s, amp_list) ==
  Flatten([i \in 1..NumModels(s) |->
             IF ~s.flux_from_point_source_list[i] THEN <<>>
             ELSE IF s.fixed_magnification_list[i] THEN <<amp_list[i]>>
             ELSE amp_list[i]])

\* C19: linear_param_from_kwargs of the list set_amplitudes returned gives the
\* amplitudes of amp_list flattened in declaration order, for sources of any
\* type: set_amplitudes writes the field linear_param_from_kwargs reads.
C19_SameFieldConvention ==
  (last.op = "linear_param_from_kwargs" /\ last.after = "set_amplitudes")
    => last.param = FlattenedAmplitudes(self, last.amp_list)

\* ------------------------------------------------------ check_positive_flux
\* The amplitudes present in a list of entries.
AmplitudesIn(kwargs_ps) ==
  UNION {(IF kwargs_ps[n].point_amp = Nothing THEN {}
          ELSE Range(kwargs_ps[n].point_amp[1]))
         \cup (IF kwargs_ps[n].source_amp = Nothing THEN {}
               ELSE {kwargs_ps[n].source_amp[1]})
         : n \in 1..Len(kwargs_ps)}

IsNegative(a) == ~a.nan /\ a.v < 0

\* C15: check_positive_flux returns False exactly when some point_amp or
\* source_amp holds a value that is negative or NaN (a value for which
\* value >= 0 does not hold), and True otherwise: for zero and positive
\* amplitudes, for entries with neither field and for the empty list; the list
\* is left as it was.
C15_PositiveFluxComparison ==
  last.op = "check_positive_flux"
    => /\ last.pos_bool
            = ~(\E a \in AmplitudesIn(last.kwargs_ps) : IsNegative(a) \/ a.nan)
       /\ last.kwargs_ps_after = last.kwargs_ps

\* C15 as stated: False exactly when some point_amp or source_amp holds a
\* negative value.
C15_PositiveFluxNegativeOnly ==
  last.op = "check_positive_flux"
    => /\ last.pos_bool = ~(\E a \in AmplitudesIn(last.kwargs_ps) : IsNegative(a))
       /\ last.kwargs_ps_after = last.kwargs_ps

\* False was returned for a list that holds NaN and no negative value, in a
\* second entry whose first has neither field.
C15_Witness ==
  /\ last.op = "check_positive_flux"
  /\ ~last.pos_bool
  /\ Len(last.kwargs_ps) = 2
  /\ last.kwargs_ps[1] = [point_amp |-> Nothing, source_amp |-> Nothing]
  /\ \E a \in AmplitudesIn(last.kwargs_ps) : a.nan
  /\ \E a \in AmplitudesIn(last.kwargs_ps) : a = Float(0)
  /\ ~(\E a \in AmplitudesIn(last.kwargs_ps) : IsNegative(a))

\* ---------------------------------------------------- check_image_positions
\* Every image of source i ray-traces to within tolerance of the first image's
\* ray-traced point (squared distances against the squared tolerance).
WithinTolerance(s, kwargs_lens, tolerance, x_pos, y_pos) ==
  LET src == RayShooting(s.lens_model, kwargs_lens, x_pos, y_pos)
  IN  \A j \in 1..Len(x_pos) :
        /\ tolerance >= 0
        /\ (src.x[j] - src.x[1]) * (src.x[j] - src.x[1])
             + (src.y[j] - src.y[1]) * (src.y[j] - src.y[1])
             <= tolerance * tolerance

\* C14: check_image_positions returns a boolean for every input: True exactly
\* when for every LENSED_POSITION or SOURCE_POSITION source every image
\* position it was given by image_position ray-traces to within tolerance of
\* the first image's ray-traced point, UNLENSED sources having no say.
C14_CheckImagePositions ==
  last.op = "check_image_positions"
    => /\ last.outcome \in {"True", "False"}
       /\ (last.outcome = "True")
            = (\A i \in 1..NumModels(self) :
                 self.point_source_type_list[i] \in {"LENSED_POSITION", "SOURCE_POSITION"}
                   => WithinTolerance(self, last.kwargs_lens, last.tolerance,
                                      last.x_image_list[i], last.y_image_list[i]))

\* ------------------------------------------------------- the no-cache policy
\* The x (or y) coordinates the models compute for the arguments of a call,
\* selected models in declaration order, images in order.
FreshFlat(s, kwargs_ps, kwargs_lens, k, axis) ==
  Flatten([idx \in 1..NumModels(s) |->
             IF Selected(k, idx)
             THEN FreshPositions(s, idx, kwargs_ps, kwargs_lens, FALSE)[axis]
             ELSE <<>>])

\* C18: under the no-cache policy every call of image_position,
\* point_source_list (here without amplitudes), linear_response_set and
\* num_basis returns the positions computed from the arguments of that call
\* (for num_basis, their number), never a result stored by an earlier call.
C18_NoStaleResult ==
  /\ last.op = "image_position"
       => /\ Flatten(last.x_image_list)
               = FreshFlat(self, last.kwargs_ps, last.kwargs_lens, last.k, "x")
          /\ Flatten(last.y_image_list)
               = FreshFlat(self, last.kwargs_ps, last.kwargs_lens, last.k, "y")
  /\ (last.op = "point_source_list" /\ ~last.with_amp)
       => /\ last.ra_array
               = FreshFlat(self, last.kwargs_ps, last.kwargs_lens, last.k, "x")
          /\ last.dec_array
               = FreshFlat(self, last.kwargs_ps, last.kwargs_lens, last.k, "y")
  /\ last.op = "linear_response_set"
       => /\ Flatten(last.ra_pos)
               = FreshFlat(self, last.kwargs_ps, last.kwargs_lens, KNone, "x")
          /\ Flatten(last.dec_pos)
               = FreshFlat(self, last.kwargs_ps, last.kwargs_lens, KNone, "y")
  /\ last.op = "num_basis"
       => last.n = Len(FreshFlat(self, last.kwargs_ps, last.kwargs_lens, KNone, "x"))

\* ------------------------------------------------------------- the Gaussian
\* The square of the radius of point j of a call, before flooring.
RawRadiusSquared(l, j) ==
  (l.x[j] - l.center_x) * (l.x[j] - l.center_x)
    + (l.y[j] - l.center_y) * (l.y[j] - l.center_y)

AllFinite(out) == \A f \in DOMAIN out : out[f] # "nonfinite"

\* C16: derivatives and hessian never divide by a zero radius: for scalars
\* and arrays alike the radius divided by is ds where the radius of the point
\* is <= ds and the radius itself elsewhere, so it is at least ds; every
\* result is finite, at the center too, where the deflection is (0, 0); and
\* the two mixed derivatives returned are the same value.
C16_RadiusFloored ==
  last.op \in {"derivatives", "hessian"}
    => \A j \in 1..Len(last.x) :
         /\ last.Rsq[j] >= ds * ds
         /\ last.Rsq[j] = IF RawRadiusSquared(last, j) <= ds * ds
                         THEN ds * ds ELSE RawRadiusSquared(last, j)
         /\ AllFinite(last.out[j])
         /\ (last.op = "derivatives" /\ RawRadiusSquared(last, j) = 0)
              => (last.out[j].f_x = "zero" /\ last.out[j].f_y = "zero")
         /\ last.op = "hessian" => last.out[j].f_xy = last.out[j].f_yx

\* Both operations have been called at the center, on a scalar and inside an
\* array that also holds a point at radius ds and one beyond.
C16_Witness ==
  /\ last.op \in {"derivatives", "hessian"}
  /\ last.amp = 1
  /\ \E j \in 1..Len(last.x) : RawRadiusSquared(last, j) = 0
  /\ \/ ~last.array
     \/ /\ \E j \in 1..Len(last.x) : RawRadiusSquared(last, j) = ds * ds
        /\ Len(last.x) = 2

\* ------------------------------------------------- the amplitude converters
\* Twice the distance of r from a, in units of the last place of a; far apart
\* when the exponents differ by more than one.
HalfUlpsApart(r, a) ==
  IF r.e = a.e THEN 2 * Abs(r.m - a.m)
  ELSE IF r.e = a.e - 1 THEN Abs(r.m - 2 * a.m)
  ELSE IF r.e = a.e + 1 THEN Abs(4 * r.m - 2 * a.m)
  ELSE 2^Precision

====
